---------------------------- MODULE Spec2Model ----------------------------
(***************************************************************************)
(* A model of the GitLab merge-request webhook bot: the callback router,   *)
(* the merge-request dispatcher, the maintainer assignment                 *)
(* (maybeAssignMaintainer), the paginated member listing                   *)
(* (getProjectMaintainers) and the Slack notification (notifyNewMR).       *)
(*                                                                         *)
(* One handler runs per webhook delivery.  A handler takes one step per    *)
(* call to an external service (GitLab API, Slack RTM); the code between   *)
(* two calls belongs to the step of the call that precedes it.  The        *)
(* outcome of every external call (success or failure) is chosen by the    *)
(* environment.                                                            *)
(***************************************************************************)
EXTENDS Integers, Sequences, FiniteSets, TLC

\* ------------------------------------------------------------------ bounds
\* longest project member list served by the platform
MaxMembers == 3
\* how many times the platform delivers the same webhook payload
MaxDeliveries == 2
\* page size of the member listing (100 in the code, scaled down here)
PerPage == 2

\* ------------------------------------------------------- program constants
MR_ACTION_OPENED == "open"
MR_ACTION_UPDATED == "update"
MR_ACTION_APPROVED == "approved"
MR_ACTION_MERGED == "merge"
MR_ACTION_UNAPPROVED == "unapproved"
MR_ACTION_CLOSED == "close"
MR_ACTION_REOPENED == "reopen"
\* an action string GitLab may send that the switch does not list
ActionUnknown == "unknown"

KnownActions ==
  {MR_ACTION_OPENED, MR_ACTION_UPDATED, MR_ACTION_APPROVED, MR_ACTION_MERGED,
   MR_ACTION_UNAPPROVED, MR_ACTION_CLOSED, MR_ACTION_REOPENED}

Actions == KnownActions \cup {ActionUnknown}

\* net/http
StatusOK == 200
StatusNoContent == 204
StatusBadRequest == 400

\* gitlab.MaintainerPermissions
MaintainerPermissions == 40

\* the revisions of the program: src/main.go and the later revision that
\* looks the assignee up (src/unnamed/part_001)
RevMain == "main"
RevLookup == "part_001"
Revisions == {RevMain, RevLookup}

\* the two earlier revisions: the earliest one, without chat
\* (src/unnamed/part_000), and the one that maps projects to channels
\* (src/unnamed/part_002)
RevEarliest == "part_000"
RevStatic == "part_002"
EarlierRevisions == {RevEarliest, RevStatic}

\* ------------------------------------------------------------ the platform
\* user IDs known to the platform; 0 is "no user"
Users == 1..3

\* Users.GetUser(id).Name when the lookup succeeds
UserName(id) ==
  CASE id = 1 -> "Alice"
    [] id = 2 -> "Bob"
    [] id = 3 -> "Carol"
    [] OTHER -> ""

\* the access level each user holds when a member of the project: user 1 is
\* a maintainer, user 2 an owner (one level above), the others developers (one
\* level below)
AccessOf(id) ==
  CASE id = 1 -> MaintainerPermissions
    [] id = 2 -> MaintainerPermissions + 10
    [] OTHER -> MaintainerPermissions - 10

\* *gitlab.ProjectMember
Member(id) == [ID |-> id, Name |-> UserName(id), AccessLevel |-> AccessOf(id)]

\* a nil *gitlab.ProjectMember inside a page
NilMember == [ID |-> 0, Name |-> "", AccessLevel |-> 0]

\* a test that takes no entry for nil
IsNilNever(m) == FALSE

IsNil(m) == m.ID = 0

Entries == {Member(id) : id \in Users} \cup {NilMember}

RECURSIVE DistinctIDs(_)
DistinctIDs(s) ==
  IF Len(s) = 0 THEN TRUE
  ELSE /\ \A i \in 2..Len(s) : s[i].ID # Head(s).ID
       /\ DistinctIDs(Tail(s))

\* every member list the platform may hold: a user is a member at most once,
\* and at most one entry of the list is absent
MemberLists ==
  {s \in UNION {[1..n -> Entries] : n \in 0..MaxMembers} : DistinctIDs(s)}

Min(a, b) == IF a < b THEN a ELSE b

\* the page a ListProjectMembers call returns: pages are numbered as the
\* loop numbers them, from 0
PageOf(list, page) ==
  SubSeq(list, page * PerPage + 1, Min((page + 1) * PerPage, Len(list)))

\* ---------------------------------------------------- getProjectMaintainers
\* a filter that keeps members of every access level
KeepsEveryMember(m) == TRUE

KeepsMember(m) == m.AccessLevel >= MaintainerPermissions

\* the inner loop over one page: stop at a nil member, keep the maintainers
RECURSIVE FilterPage(_)
FilterPage(ms) ==
  IF Len(ms) = 0 THEN <<>>
  ELSE IF IsNil(Head(ms)) THEN <<>>
  ELSE IF KeepsMember(Head(ms)) THEN <<Head(ms)>> \o FilterPage(Tail(ms))
  ELSE FilterPage(Tail(ms))

\* a loop that ends at an empty page only
LastPageWhenEmpty(ms) == Len(ms) = 0

\* a loop that also ends after a full page
LastPageOrFull(ms) == Len(ms) <= PerPage

\* the loop ends after this page
LastPage(ms) == Len(ms) < PerPage


\* ------------------------------------------------------------ the requests
\* the destinations of the slack-channel query parameter; <<>> when absent
ChannelLists == {<<>>, <<"C1">>, <<"C1", "C2">>}

\* the author of every merge request of the model: the developer
AuthorID == CHOOSE id \in Users : AccessOf(id) < MaintainerPermissions

ParseError == "error"
ParseMerge == "merge"
ParseOther == "other"

\* a delivery whose body parses to a merge-request event
MergeRequests ==
  [readErr : BOOLEAN, slackChan : ChannelLists, parse : {ParseMerge},
   action : Actions, assigneeID : {0} \cup Users]

\* a delivery whose body does not parse, or parses to another event type
OtherRequests ==
  [readErr : BOOLEAN, slackChan : ChannelLists, parse : {ParseError, ParseOther},
   action : {""}, assigneeID : {0}]

Requests == MergeRequests \cup OtherRequests

\* the earlier revisions' map of project IDs to chat channels
repoSlackChannelMapping == [id \in 1..3 |-> "C1234567890"]

\* the projects whose webhook calls the bot: one the map lists, one it lacks
ProjectIDs == {1, 4}

\* the deliveries the earlier revisions receive: they read no query
\* parameter, and take the destination from the event's project
EarlierRequests ==
  [readErr : BOOLEAN, slackChan : {<<>>}, parse : {ParseMerge},
   action : Actions, assigneeID : {0} \cup Users, projectID : ProjectIDs]
  \cup
  [readErr : BOOLEAN, slackChan : {<<>>}, parse : {ParseError, ParseOther},
   action : {""}, assigneeID : {0}, projectID : ProjectIDs]

\* ---------------------------------------------------------------- errors
ErrNil == "nil"
ErrList == "ListProjectMembers failed"
ErrUpdate == "UpdateMergeRequest failed"
\* no error where one is meant
ErrMissing == "nil"

ErrNoMaintainers == "no maintainers for repository, cannot assign a maintainer"
ErrUserLookup == "GetUser failed"

\* ------------------------------------------------------------- the state
VARIABLES
  members,     \* the project's member list on the platform
  mrAssignee,  \* the merge request's assignee on the platform, 0 when unset
  slackToken,  \* whether SLACK_TOKEN was set at startup
  rev,         \* the revision of the program that runs
  req,         \* the webhook delivery each handler receives
  deliveries,  \* how many more times each delivery arrives
  pc,          \* where each handler stands
  resp,        \* each handler's HTTP response writer
  logs,        \* what each handler has logged
  loc,         \* each handler's local variables
  calls,       \* the external calls each handler has made for this delivery
  sent         \* the chat messages each handler has handed to the RTM

vars ==
  <<members, mrAssignee, slackToken, rev, req, deliveries, pc, resp, logs, loc,
    calls, sent>>

Procs == {1, 2}

\* list, update, getUser, send: the calls made to GitLab and to the RTM;
\* listErr: the ListProjectMembers calls that failed; notify: the calls of
\* notifyNewMR; replaced: the assignee the platform held when the last
\* UpdateMergeRequest call was made
NoCalls ==
  [list |-> 0, listErr |-> 0, update |-> 0, getUser |-> 0, notify |-> 0,
   send |-> 0, replaced |-> 0]

\* the text of a notification: the names it is built from (the repository,
\* the URL and the WIP mark are copied from the event)
NoMsg == [author |-> "", assignee |-> ""]

NoLocals ==
  [page |-> 0, maintainers |-> <<>>, maintainer |-> NilMember, err |-> ErrNil,
   assignee |-> "", returned |-> FALSE, found |-> FALSE, opt |-> 0,
   lookupErr |-> ErrNil, msg |-> NoMsg, chans |-> <<>>, panicked |-> FALSE]

\* gin's response writer: the status set so far, and the status sent on the
\* wire (0 until the header is written)
NewWriter == [status |-> StatusOK, wire |-> 0]

IdleRequest ==
  [readErr |-> FALSE, slackChan |-> <<>>, parse |-> ParseOther, action |-> "",
   assigneeID |-> 0]

\* ------------------------------------------------------ the response writer
WriteHeader(r, code) == IF r.wire # 0 THEN r ELSE [r EXCEPT !.status = code]

WriteHeaderNow(r) == IF r.wire # 0 THEN r ELSE [r EXCEPT !.wire = r.status]

\* http.Error: set the status, then write the body
HttpError(r, code) == WriteHeaderNow(WriteHeader(r, code))

LogLine(level, text) == [level |-> level, text |-> text]

\* p's value of a per-handler variable changed, the others' kept
Set(f, p, v) == [f EXCEPT ![p] = v]

Logged(p, lines) == Set(logs, p, logs[p] \o lines)

Called(p, what) == Set(calls, p, [calls[p] EXCEPT ![what] = @ + 1])

\* ------------------------------------------------------------ the handler
\* a switch whose update case falls through to the assignment
AssignsOnUpdate(action) ==
  action \in {MR_ACTION_REOPENED, MR_ACTION_OPENED, MR_ACTION_UPDATED}

\* the switch of mergeRequest: the actions that assign and notify
Assigns(action) == action \in {MR_ACTION_REOPENED, MR_ACTION_OPENED}

\* the switch of the revision with the channel map: reopen is an empty case
AssignsStatic(action) == action = MR_ACTION_OPENED

\* the earliest revision: every case of the switch is empty, and the call of
\* maybeAssignMaintainer follows the switch
AssignsEarliest(action) == TRUE

\* the earlier revisions' response writer after the two checks that precede
\* the type switch
RouterChecksEarlier(r, w) ==
  LET w1 == IF r.readErr THEN HttpError(w, StatusNoContent) ELSE w
  IN  IF r.parse = ParseError THEN HttpError(w1, StatusNoContent) ELSE w1

\* what the two checks log
RouterLogsEarlier(r) ==
  (IF r.readErr THEN <<LogLine("error", "Failed to read request body")>> ELSE <<>>)
  \o (IF r.parse = ParseError
      THEN <<LogLine("error", "Failed to parse gitlab webhook")>> ELSE <<>>)

\* the response writer after the three checks that precede the type switch
RouterChecks(r, w) ==
  LET w1 == IF r.readErr THEN HttpError(w, StatusOK) ELSE w
      w2 == IF r.slackChan # <<>> THEN HttpError(w1, StatusOK) ELSE w1
  IN  IF r.parse = ParseError THEN HttpError(w2, StatusBadRequest) ELSE w2

\* what the three checks log
RouterLogs(r) ==
  (IF r.readErr THEN <<LogLine("error", "Failed to read request body")>> ELSE <<>>)
  \o (IF r.slackChan # <<>>
      THEN <<LogLine("error", "Failed to read URL parameter")>> ELSE <<>>)
  \o (IF r.parse = ParseError
      THEN <<LogLine("error", "Failed to parse gitlab webhook")>> ELSE <<>>)

\* the handler returns: gin writes the response header if nothing has
Returns(p, w) ==
  /\ resp' = Set(resp, p, WriteHeaderNow(w))
  /\ pc' = Set(pc, p, "done")

\* the handler goes on to its next call
GoesOn(p, to) ==
  /\ pc' = Set(pc, p, to)
  /\ UNCHANGED resp

\* a delivery arrives and gin runs gitlabCallbackRouter on a fresh context:
\* the router up to the first call to GitLab, mergeRequest's switch included
Router(p) ==
  /\ pc[p] \in {"idle", "done"}
  /\ deliveries[p] > 0
  /\ deliveries' = Set(deliveries, p, deliveries[p] - 1)
  /\ loc' = Set(loc, p, NoLocals)
  /\ calls' = Set(calls, p, NoCalls)
  /\ sent' = Set(sent, p, <<>>)
  /\ LET r == req[p]
         w == RouterChecks(r, NewWriter)
     IN  IF r.parse = ParseMerge
         THEN /\ logs' = Set(logs, p, RouterLogs(r)
                           \o <<LogLine("debug", "processing merge request webhook")>>)
              /\ IF Assigns(r.action)
                 THEN /\ resp' = Set(resp, p, WriteHeader(w, StatusOK))
                      /\ pc' = Set(pc, p, "list")
                 ELSE Returns(p, WriteHeader(w, StatusOK))
         ELSE /\ logs' = Set(logs, p, RouterLogs(r)
                           \o <<LogLine("error", "Not handling event")>>)
              /\ Returns(p, HttpError(w, StatusNoContent))
  /\ UNCHANGED <<members, mrAssignee, slackToken, rev, req>>

\* the earlier revisions' gitlabCallbackRouter up to the first call to
\* GitLab, mergeRequest's switch included
RouterEarlier(p) ==
  /\ pc[p] \in {"idle", "done"}
  /\ deliveries[p] > 0
  /\ deliveries' = Set(deliveries, p, deliveries[p] - 1)
  /\ loc' = Set(loc, p, NoLocals)
  /\ calls' = Set(calls, p, NoCalls)
  /\ sent' = Set(sent, p, <<>>)
  /\ LET r == req[p]
         w == RouterChecksEarlier(r, NewWriter)
     IN  IF r.parse = ParseMerge
         THEN /\ logs' = Set(logs, p, RouterLogsEarlier(r)
                           \o <<LogLine("debug", "processing merge request webhook")>>)
              /\ IF rev = RevEarliest /\ AssignsEarliest(r.action)
                 THEN /\ resp' = Set(resp, p, WriteHeader(w, StatusOK))
                      /\ pc' = Set(pc, p, "getAuthorFirst")
                 ELSE IF rev = RevStatic /\ AssignsStatic(r.action)
                 THEN /\ resp' = Set(resp, p, WriteHeader(w, StatusOK))
                      /\ pc' = Set(pc, p, "list")
                 ELSE Returns(p, WriteHeader(w, StatusOK))
         ELSE /\ logs' = Set(logs, p, RouterLogsEarlier(r)
                           \o <<LogLine("error", "Not handling event")>>)
              /\ Returns(p, HttpError(w, StatusNoContent))
  /\ UNCHANGED <<members, mrAssignee, slackToken, rev, req>>

\* maybeAssignMaintainer returns (name, err)
Returned(l, name, err) ==
  [l EXCEPT !.returned = TRUE, !.assignee = name, !.err = err]

\* a check that lets every error pass
AssignFailedNever(err) == FALSE

\* mergeRequest's check of the error maybeAssignMaintainer returns
AssignFailed(err) == err # ErrNil

\* mergeRequest after maybeAssignMaintainer has returned: log and return on
\* an error, go on to notifyNewMR otherwise
AfterAssign(p, l) ==
  IF AssignFailed(l.err)
  THEN /\ loc' = Set(loc, p, l)
       /\ logs' = Logged(p,
             <<LogLine("error", "Failed to assign maintainer to merge request")>>)
       /\ Returns(p, resp[p])
  ELSE IF rev = RevEarliest
  THEN \* the earliest revision builds the message, logs it and returns
       /\ loc' = Set(loc, p, [l EXCEPT !.msg.assignee = l.assignee])
       /\ logs' = Logged(p, <<LogLine("info", "New merge request")>>)
       /\ Returns(p, resp[p])
  ELSE /\ loc' = Set(loc, p, l)
       /\ logs' = logs
       /\ GoesOn(p, "getAuthor")

\* one ListProjectMembers call of getProjectMaintainers and the loop body
\* that handles its answer
ListPage(p) ==
  /\ pc[p] = "list"
  /\ \E ok \in BOOLEAN :
       IF ok
       THEN LET ms == PageOf(members, loc[p].page)
                got == loc[p].maintainers \o FilterPage(ms)
            IN  /\ loc' = Set(loc, p,
                     IF LastPage(ms)
                     THEN [loc[p] EXCEPT !.maintainers = got]
                     ELSE [loc[p] EXCEPT !.maintainers = got, !.page = @ + 1])
                /\ pc' = Set(pc, p, IF LastPage(ms) THEN "assign" ELSE "list")
                /\ calls' = Called(p, "list")
       ELSE /\ loc' = Set(loc, p, [loc[p] EXCEPT !.err = ErrList])
            /\ pc' = Set(pc, p, "assign")
            /\ calls' = Set(calls, p, [calls[p] EXCEPT !.list = @ + 1,
                                                       !.listErr = @ + 1])
  /\ UNCHANGED <<members, mrAssignee, slackToken, rev, req, deliveries, resp,
                 logs, sent>>

\* a check that lets the listing's error pass
ListFailedNever(err) == FALSE

\* maybeAssignMaintainer's check of the error getProjectMaintainers returns
ListFailed(err) == err # ErrNil

NoMaintainers(maintainers) == Len(maintainers) = 0

\* a search that never finds the assignee
FoundNever(maintainers, assigneeID) == FALSE

\* a search that looks at the first maintainer only
FoundFirst(maintainers, assigneeID) == maintainers[1].ID = assigneeID

\* the search of the maintainers for the current assignee
Found(maintainers, assigneeID) ==
  \E i \in 1..Len(maintainers) : maintainers[i].ID = assigneeID

\* the name src/main.go returns when the assignee is already a maintainer:
\* the name of the maintainer picked at random
NameWhenFound(maintainer, assigneeID) == maintainer.Name

\* the name the earlier revisions return when the assignee is already a
\* maintainer: the name of the event's assignee, which the payload leaves
\* blank
EventAssigneeName == ""

\* maybeAssignMaintainer from the return of getProjectMaintainers to its next
\* call to GitLab, or to its return
Assign(p) ==
  /\ pc[p] = "assign"
  /\ LET l == loc[p]
         id == req[p].assigneeID
     IN  IF ListFailed(l.err) THEN AfterAssign(p, Returned(l, "", l.err))
         ELSE IF NoMaintainers(l.maintainers)
         THEN AfterAssign(p, Returned(l, "", ErrNoMaintainers))
         ELSE \E i \in 1..Len(l.maintainers) :
                LET m == l.maintainers[i]
                    picked == [l EXCEPT !.maintainer = m,
                                        !.found = id # 0 /\ Found(l.maintainers, id)]
                IN  IF ~picked.found
                    THEN /\ loc' = Set(loc, p, picked)
                         /\ GoesOn(p, "update")
                         /\ UNCHANGED logs
                    ELSE IF rev = RevLookup
                    THEN /\ loc' = Set(loc, p, picked)
                         /\ GoesOn(p, "getAssignee")
                         /\ UNCHANGED logs
                    ELSE IF rev = RevMain
                    THEN AfterAssign(p, Returned(picked, NameWhenFound(m, id), ErrNil))
                    ELSE AfterAssign(p, Returned(picked, EventAssigneeName, ErrNil))
  /\ UNCHANGED <<members, mrAssignee, slackToken, rev, req, deliveries, calls,
                 sent>>

\* the access level passed where the ID is meant
NewAssigneeLevel(maintainer) == maintainer.AccessLevel

\* the AssigneeID option of the UpdateMergeRequest call
NewAssigneeID(maintainer) == maintainer.ID

\* the name of the event's assignee, which the payload leaves blank
BlankName(maintainer) == ""

\* the name returned with the UpdateMergeRequest call's error
NewAssigneeName(maintainer) == maintainer.Name

\* the UpdateMergeRequest call and the return that follows it
UpdateMR(p) ==
  /\ pc[p] = "update"
  /\ calls' = Set(calls, p, [calls[p] EXCEPT !.update = @ + 1,
                                             !.replaced = mrAssignee])
  /\ \E ok \in BOOLEAN :
       LET m == loc[p].maintainer
           l == [loc[p] EXCEPT !.opt = NewAssigneeID(m)]
       IN  /\ mrAssignee' = IF ok THEN NewAssigneeID(m) ELSE mrAssignee
           /\ AfterAssign(p,
                Returned(l, NewAssigneeName(m), IF ok THEN ErrNil ELSE ErrUpdate))
  /\ UNCHANGED <<members, slackToken, rev, req, deliveries, sent>>

\* a check that lets the lookup's error pass
LookupFailedNever(err) == FALSE

\* the later revision's check of the error GetUser returns for the assignee
LookupFailed(err) == err # ErrNil

\* the later revision's GetUser call for the current assignee, whose error
\* is a variable of its own, and the return that follows it
GetAssignee(p) ==
  /\ pc[p] = "getAssignee"
  /\ calls' = Called(p, "getUser")
  /\ \E ok \in BOOLEAN :
       LET l == [loc[p] EXCEPT !.lookupErr = IF ok THEN ErrNil ELSE ErrUserLookup]
       IN  IF LookupFailed(l.lookupErr)
           THEN AfterAssign(p, Returned(l, "", l.lookupErr))
           ELSE AfterAssign(p, Returned(l, UserName(req[p].assigneeID), ErrNil))
  /\ UNCHANGED <<members, mrAssignee, slackToken, rev, req, deliveries, sent>>

AuthorPlaceholder == "unknown(see logs for error)"

\* gin's Recovery middleware answers a panic of the handler
Recovered(w) == WriteHeaderNow(WriteHeader(w, 500))

\* the earliest revision's GetUser call for the author, at the head of
\* mergeRequest: its error is not looked at, and user.Name panics on a failure
GetAuthorFirst(p) ==
  /\ pc[p] = "getAuthorFirst"
  /\ calls' = Called(p, "getUser")
  /\ \E ok \in BOOLEAN :
       IF ok
       THEN /\ loc' = Set(loc, p, [loc[p] EXCEPT !.msg.author = UserName(AuthorID)])
            /\ GoesOn(p, "list")
       ELSE /\ loc' = Set(loc, p, [loc[p] EXCEPT !.panicked = TRUE])
            /\ resp' = Set(resp, p, Recovered(resp[p]))
            /\ pc' = Set(pc, p, "done")
  /\ UNCHANGED <<members, mrAssignee, slackToken, rev, req, deliveries, logs,
                 sent>>

\* the destinations of notifyNewMR: the slack-channel parameter, or in the
\* revision with the channel map the channel of the event's project, if any
Destinations(p) ==
  IF rev = RevStatic
  THEN IF req[p].projectID \in DOMAIN repoSlackChannelMapping
       THEN <<repoSlackChannelMapping[req[p].projectID]>>
       ELSE <<>>
  ELSE req[p].slackChan

\* what notifyNewMR logs after the message
DestinationLogs(p) ==
  IF rev = RevStatic /\ Destinations(p) = <<>>
  THEN <<LogLine("warning", "No slack channel configured for project ID")>>
  ELSE <<>>

\* notifyNewMR up to the loop over the destinations
GetAuthor(p) ==
  /\ pc[p] = "getAuthor"
  /\ calls' = Set(calls, p, [calls[p] EXCEPT !.notify = @ + 1, !.getUser = @ + 1])
  /\ \E ok \in BOOLEAN :
       LET lookupLog ==
             IF ok THEN <<>>
             ELSE <<LogLine("error", "unable to see who opened the merge request")>>
           msg(author) ==
             [author |-> author, assignee |-> loc[p].assignee]
           notify(author) ==
             /\ loc' = Set(loc, p, [loc[p] EXCEPT !.msg = msg(author),
                                                  !.chans = Destinations(p)])
             /\ logs' = Logged(p, lookupLog \o <<LogLine("info", "New merge request")>>
                                \o DestinationLogs(p))
             /\ IF Destinations(p) = <<>> THEN Returns(p, resp[p])
                ELSE GoesOn(p, "send")
       IN  IF ok THEN notify(UserName(AuthorID))
           ELSE IF rev = RevLookup
           THEN notify(AuthorPlaceholder)
           ELSE \* user is nil: user.Name panics
                /\ loc' = Set(loc, p, [loc[p] EXCEPT !.panicked = TRUE])
                /\ logs' = Logged(p, lookupLog)
                /\ resp' = Set(resp, p, Recovered(resp[p]))
                /\ pc' = Set(pc, p, "done")
  /\ UNCHANGED <<members, mrAssignee, slackToken, rev, req, deliveries, sent>>

\* rtm.SendMessage hands the message for the next destination to the RTM
SendMessage(p) ==
  /\ pc[p] = "send"
  /\ slackToken
  /\ calls' = Called(p, "send")
  /\ sent' = Set(sent, p,
       Append(sent[p], [channel |-> Head(loc[p].chans), msg |-> loc[p].msg]))
  /\ loc' = Set(loc, p, [loc[p] EXCEPT !.chans = Tail(@)])
  /\ IF Len(loc[p].chans) = 1 THEN Returns(p, resp[p]) ELSE GoesOn(p, "send")
  /\ UNCHANGED <<members, mrAssignee, slackToken, rev, req, deliveries, logs>>

\* the handler has returned to gin, which finishes the response
HandlerReturned(p) == pc[p] = "done"

\* rtm.SendMessage never returns: the RTM's outgoing queue takes no message
SendBlocks(p) ==
  /\ pc[p] = "send"
  /\ calls' = Called(p, "send")
  /\ pc' = Set(pc, p, "blocked")
  /\ UNCHANGED <<members, mrAssignee, slackToken, rev, req, deliveries, resp,
                 logs, loc, sent>>

\* without a token the RTM is the zero value: building the message panics
SendPanics(p) ==
  /\ pc[p] = "send"
  /\ ~slackToken
  /\ loc' = Set(loc, p, [loc[p] EXCEPT !.panicked = TRUE])
  /\ resp' = Set(resp, p, Recovered(resp[p]))
  /\ pc' = Set(pc, p, "done")
  /\ UNCHANGED <<members, mrAssignee, slackToken, rev, req, deliveries, logs,
                 calls, sent>>

\* ------------------------------------------------------- the specification
\* one webhook payload, delivered up to MaxDeliveries times to one handler;
\* the payload's assigneeID is the platform's assignee when the event fired
Init ==
  /\ members \in MemberLists
  /\ slackToken \in BOOLEAN
  /\ rev \in Revisions
  /\ \E r \in Requests :
       /\ req = [p \in Procs |-> IF p = 1 THEN r ELSE IdleRequest]
       /\ mrAssignee = r.assigneeID
  /\ deliveries = [p \in Procs |-> IF p = 1 THEN MaxDeliveries ELSE 0]
  /\ pc = [p \in Procs |-> "idle"]
  /\ resp = [p \in Procs |-> NewWriter]
  /\ logs = [p \in Procs |-> <<>>]
  /\ loc = [p \in Procs |-> NoLocals]
  /\ calls = [p \in Procs |-> NoCalls]
  /\ sent = [p \in Procs |-> <<>>]

Next ==
  \E p \in Procs :
    \/ Router(p)
    \/ ListPage(p)
    \/ Assign(p)
    \/ UpdateMR(p)
    \/ GetAssignee(p)
    \/ GetAuthor(p)
    \/ SendMessage(p)
    \/ SendBlocks(p)
    \/ SendPanics(p)

Spec == Init /\ [][Next]_vars

\* one payload delivered once to one handler of an earlier revision
InitEarlier ==
  /\ members \in MemberLists
  /\ slackToken \in BOOLEAN
  /\ rev \in EarlierRevisions
  /\ \E r \in EarlierRequests :
       /\ req = [p \in Procs |-> IF p = 1 THEN r ELSE IdleRequest]
       /\ mrAssignee = r.assigneeID
  /\ deliveries = [p \in Procs |-> IF p = 1 THEN 1 ELSE 0]
  /\ pc = [p \in Procs |-> "idle"]
  /\ resp = [p \in Procs |-> NewWriter]
  /\ logs = [p \in Procs |-> <<>>]
  /\ loc = [p \in Procs |-> NoLocals]
  /\ calls = [p \in Procs |-> NoCalls]
  /\ sent = [p \in Procs |-> <<>>]

NextEarlier ==
  \E p \in Procs :
    \/ RouterEarlier(p)
    \/ GetAuthorFirst(p)
    \/ ListPage(p)
    \/ Assign(p)
    \/ UpdateMR(p)
    \/ GetAuthor(p)
    \/ SendMessage(p)
    \/ SendBlocks(p)
    \/ SendPanics(p)

SpecEarlier == InitEarlier /\ [][NextEarlier]_vars

\* an open or reopen delivery for the merge request, readable, with at most
\* one destination
OpenRequests ==
  {r \in MergeRequests :
     /\ Assigns(r.action)
     /\ ~r.readErr
     /\ Len(r.slackChan) <= 1}

\* one payload for the merge request delivered twice, each delivery to a
\* handler of its own (gin runs every request on its own goroutine); the
\* payload carries the assigneeID the platform held when the event fired, and
\* the project's member list holds no absent entry
InitConcurrent ==
  /\ members \in {s \in MemberLists : \A i \in 1..Len(s) : s[i] # NilMember}
  /\ slackToken \in BOOLEAN
  /\ rev \in Revisions
  /\ \E r \in OpenRequests :
       /\ req = [p \in Procs |-> r]
       /\ mrAssignee = r.assigneeID
  /\ deliveries = [p \in Procs |-> 1]
  /\ pc = [p \in Procs |-> "idle"]
  /\ resp = [p \in Procs |-> NewWriter]
  /\ logs = [p \in Procs |-> <<>>]
  /\ loc = [p \in Procs |-> NoLocals]
  /\ calls = [p \in Procs |-> NoCalls]
  /\ sent = [p \in Procs |-> <<>>]

SpecConcurrent == InitConcurrent /\ [][Next]_vars

\* ------------------------------------------------------------ the claims
\* handler p is handling, or has handled, an open or reopen event
OpenOrReopen(p) ==
  /\ pc[p] # "idle"
  /\ req[p].parse = ParseMerge
  /\ req[p].action \in {"open", "reopen"}

\* getProjectMaintainers has returned to p without an error in this delivery
Resolved(p) ==
  /\ OpenOrReopen(p)
  /\ pc[p] # "list"
  /\ loc[p].err # ErrList

\* the IDs of the maintainer set p has resolved
ResolvedIDs(p) == {loc[p].maintainers[i].ID : i \in 1..Len(loc[p].maintainers)}

\* the event's assignee is set and is one of the maintainers p has resolved
AssigneeIsMaintainer(p) ==
  /\ Resolved(p)
  /\ req[p].assigneeID # 0
  /\ req[p].assigneeID \in ResolvedIDs(p)

\* C1: when the event's assignee is a member of the resolved maintainer set,
\* no delivery of the event issues an UpdateMergeRequest call, however often
\* the event is delivered, and the platform's assignee stays the event's.
C1_NoUpdateWhenAssigneeIsMaintainer ==
  \A p \in Procs :
    AssigneeIsMaintainer(p) =>
      /\ calls[p].update = 0
      /\ loc[p].opt = 0
      /\ mrAssignee = req[p].assigneeID

\* the last delivery of such an event has been handled to its end
C1_Witness ==
  \E p \in Procs :
    /\ AssigneeIsMaintainer(p)
    /\ deliveries[p] = 0
    /\ pc[p] = "done"
    /\ loc[p].returned
    /\ Len(loc[p].maintainers) > 1

\* C2: in src/main.go, when the event's assignee is a member of the resolved
\* maintainer set, maybeAssignMaintainer returns the display name of that
\* assignee, whatever the random pick.
C2_ReturnsNameOfAssignee ==
  \A p \in Procs :
    (rev = RevMain /\ AssigneeIsMaintainer(p) /\ loc[p].returned) =>
      /\ loc[p].err = ErrNil
      /\ loc[p].assignee = UserName(req[p].assigneeID)

\* the event's assignee is unset or is none of a non-empty resolved set
NeedsAssignment(p) ==
  /\ Resolved(p)
  /\ Len(loc[p].maintainers) > 0
  /\ req[p].assigneeID \notin ResolvedIDs(p)

\* C3 as claimed: for an event whose assignee is unset or no member of a
\* non-empty maintainer set, the platform's assignee is a member of the
\* maintainer set once maybeAssignMaintainer has returned.
C3_AssigneeIsMaintainerAfterReturn ==
  \A p \in Procs :
    (NeedsAssignment(p) /\ loc[p].returned) => mrAssignee \in ResolvedIDs(p)

\* C3 amended: ... once maybeAssignMaintainer has returned without an error.
C3_AssigneeIsMaintainerAfterSuccess ==
  \A p \in Procs :
    (NeedsAssignment(p) /\ loc[p].returned /\ loc[p].err = ErrNil) =>
      mrAssignee \in ResolvedIDs(p)

\* a reassignment away from a non-maintainer has succeeded
C3_Witness ==
  \E p \in Procs :
    /\ NeedsAssignment(p)
    /\ loc[p].returned
    /\ loc[p].err = ErrNil
    /\ req[p].assigneeID # 0
    /\ mrAssignee \in ResolvedIDs(p)

\* C4: when the listing succeeds and yields no maintainer, maybeAssignMaintainer
\* returns an error and an empty name, no UpdateMergeRequest call is made and
\* mergeRequest sends no notification.
C4_NoMaintainersFails ==
  \A p \in Procs :
    (Resolved(p) /\ Len(loc[p].maintainers) = 0) =>
      /\ calls[p].update = 0
      /\ calls[p].notify = 0
      /\ calls[p].send = 0
      /\ sent[p] = <<>>
      /\ pc[p] \in {"assign", "done"}
      /\ pc[p] # "assign" =>
           /\ loc[p].returned
           /\ loc[p].err # ErrNil
           /\ loc[p].assignee = ""

\* a project whose members are all below Maintainer, handled to the end with
\* destinations to notify
C4_Witness ==
  \E p \in Procs :
    /\ Resolved(p)
    /\ Len(members) > 0
    /\ Len(loc[p].maintainers) = 0
    /\ req[p].slackChan # <<>>
    /\ loc[p].err = ErrNoMaintainers
    /\ pc[p] = "done"

\* C5: for an event whose assignee is unset or no member of a non-empty
\* maintainer set, one invocation of maybeAssignMaintainer makes exactly one
\* UpdateMergeRequest call, whose AssigneeID is the ID of a maintainer resolved
\* in that invocation, and returns the display name of that maintainer.
C5_OneUpdateWithPickedMaintainer ==
  \A p \in Procs :
    /\ calls[p].update <= 1
    /\ (NeedsAssignment(p) /\ loc[p].returned) =>
         /\ calls[p].update = 1
         /\ \E i \in 1..Len(loc[p].maintainers) :
              /\ loc[p].maintainers[i].ID = loc[p].opt
              /\ loc[p].maintainers[i].Name = loc[p].assignee

\* an unassigned merge request was given the second of two maintainers
C5_Witness ==
  \E p \in Procs :
    /\ NeedsAssignment(p)
    /\ loc[p].returned
    /\ req[p].assigneeID = 0
    /\ Len(loc[p].maintainers) = 2
    /\ loc[p].opt = loc[p].maintainers[2].ID

\* the members of a list that hold Maintainer access or more, in order
AllMaintainers(list) ==
  SelectSeq(list, LAMBDA m : ~IsNil(m) /\ m.AccessLevel >= MaintainerPermissions)

\* a list without an absent entry
NoGap(list) == \A i \in 1..Len(list) : ~IsNil(list[i])

\* C6: for every list of members served in pages of the page size, with the
\* pages numbered from 0 as the loop numbers them, getProjectMaintainers
\* returns exactly the members with Maintainer access or more over all pages,
\* each once and none missing.  (A list of members holds no absent entry.)
C6_PaginationComplete ==
  \A p \in Procs :
    (Resolved(p) /\ NoGap(members)) => loc[p].maintainers = AllMaintainers(members)

\* a list longer than one page, with a maintainer on its first page and one
\* on its last, has been listed
C6_Witness ==
  \E p \in Procs :
    /\ Resolved(p)
    /\ NoGap(members)
    /\ Len(members) > PerPage
    /\ loc[p].page > 0
    /\ KeepsMember(members[1])
    /\ KeepsMember(members[Len(members)])
    /\ Len(loc[p].maintainers) = 2

\* C7: when a ListProjectMembers call fails, on the first page or a later one,
\* getProjectMaintainers returns an error, and maybeAssignMaintainer returns
\* that error with an empty name, picks none of the maintainers gathered and
\* makes no UpdateMergeRequest call.
C7_ListFailureAborts ==
  \A p \in Procs :
    calls[p].listErr > 0 =>
      /\ loc[p].err = ErrList
      /\ loc[p].maintainer = NilMember
      /\ calls[p].update = 0
      /\ loc[p].opt = 0
      /\ pc[p] \in {"assign", "done"}
      /\ pc[p] # "assign" => (loc[p].returned /\ loc[p].assignee = "")

\* a later page failed after an earlier page had yielded a maintainer
C7_Witness ==
  \E p \in Procs :
    /\ calls[p].listErr > 0
    /\ calls[p].list > 1
    /\ Len(loc[p].maintainers) > 0
    /\ loc[p].returned
    /\ pc[p] = "done"

\* C8: notifyNewMR is called only after maybeAssignMaintainer has returned
\* without an error; when it returns an error, nothing is sent to any
\* destination.
C8_NotifyOnlyAfterAssignment ==
  \A p \in Procs :
    /\ (calls[p].notify > 0 \/ calls[p].send > 0 \/ sent[p] # <<>>) =>
         (OpenOrReopen(p) /\ loc[p].returned /\ loc[p].err = ErrNil)
    /\ (loc[p].returned /\ loc[p].err # ErrNil) =>
         /\ calls[p].notify = 0
         /\ calls[p].send = 0
         /\ sent[p] = <<>>
         /\ pc[p] = "done"

\* the update call failed for an event that names destinations, on a bot
\* whose chat client is connected
C8_Witness ==
  \E p \in Procs :
    /\ loc[p].returned
    /\ loc[p].err = ErrUpdate
    /\ req[p].slackChan # <<>>
    /\ slackToken
    /\ pc[p] = "done"

\* C9: in src/main.go an event whose action is update, approved, unapproved,
\* merge or close causes no ListProjectMembers, UpdateMergeRequest, GetUser or
\* chat send call, and the response status is 200.
C9_OtherActionsAreNoOps ==
  \A p \in Procs :
    (/\ rev = RevMain
     /\ pc[p] # "idle"
     /\ req[p].parse = ParseMerge
     /\ req[p].action \in {"update", "approved", "unapproved", "merge", "close"}) =>
      /\ calls[p] = NoCalls
      /\ sent[p] = <<>>
      /\ pc[p] = "done"
      /\ resp[p].status = 200
      /\ pc[p] = "done" => resp[p].wire = 200

\* an approved event was answered
C9_Witness ==
  \E p \in Procs :
    /\ rev = RevMain
    /\ req[p].parse = ParseMerge
    /\ req[p].action = "approved"
    /\ req[p].slackChan # <<>>
    /\ pc[p] = "done"
    /\ resp[p].wire = 200

\* handler p has answered an event whose action the switch does not list
UnknownActionDone(p) ==
  /\ pc[p] = "done"
  /\ req[p].parse = ParseMerge
  /\ req[p].action \notin
       {"open", "reopen", "update", "approved", "unapproved", "merge", "close"}

\* C10: an event with an unknown action causes no assignment and no
\* notification, is logged at warning level and is answered with a success
\* status.
C10_UnknownActionWarns ==
  \A p \in Procs :
    UnknownActionDone(p) =>
      /\ calls[p] = NoCalls
      /\ sent[p] = <<>>
      /\ resp[p].wire = 200
      /\ \E i \in 1..Len(logs[p]) : logs[p][i].level = "warning"

\* the same without the warning
UnknownActionIsNoOp ==
  \A p \in Procs :
    UnknownActionDone(p) =>
      /\ calls[p] = NoCalls
      /\ sent[p] = <<>>
      /\ resp[p].wire = 200

\* handler p has answered a delivery whose body does not parse as a webhook
MalformedDone(p) == pc[p] = "done" /\ req[p].parse = ParseError

\* C11: a request whose body fails to parse as a webhook is answered with
\* status 400, whatever its query parameters, the slack-channel parameter
\* included.
C11_MalformedGets400 ==
  \A p \in Procs : MalformedDone(p) => resp[p].wire = 400

\* the same for the requests that carry no slack-channel parameter and whose
\* body could be read
MalformedWithoutChannelGets400 ==
  \A p \in Procs :
    (MalformedDone(p) /\ req[p].slackChan = <<>> /\ ~req[p].readErr) =>
      resp[p].wire = 400

\* handler p has answered a delivery that parses to another event type
OtherEventDone(p) == pc[p] = "done" /\ req[p].parse = ParseOther

\* C12: a request that parses to an event type other than the merge-request
\* event is answered with status 204, whatever its query parameters, and
\* causes no assignment and no notification call.
C12_OtherEventGets204 ==
  \A p \in Procs :
    OtherEventDone(p) =>
      /\ resp[p].wire = 204
      /\ calls[p] = NoCalls
      /\ sent[p] = <<>>

\* the same for the requests that carry no slack-channel parameter and whose
\* body could be read
OtherEventWithoutChannelGets204 ==
  \A p \in Procs :
    (OtherEventDone(p) /\ req[p].slackChan = <<>> /\ ~req[p].readErr) =>
      /\ resp[p].wire = 204
      /\ calls[p] = NoCalls
      /\ sent[p] = <<>>

\* C13: for an accepted merge-request event the handler has returned its
\* response before the assignment and notification calls complete: whenever
\* such a call has been made, and when a chat send never completes, the
\* handler has returned.
C13_ResponseBeforeSideEffects ==
  \A p \in Procs :
    (OpenOrReopen(p) /\ (calls[p].list > 0 \/ pc[p] = "blocked")) =>
      HandlerReturned(p)

\* the GetUser call for the author of p's event has failed
AuthorLookupFailed(p) ==
  \E i \in 1..Len(logs[p]) :
    logs[p][i].text = "unable to see who opened the merge request"

\* C14: in src/main.go, when the GetUser call for the author fails,
\* notifyNewMR does not crash: it builds the message with a placeholder for
\* the author's name and sends it to every destination.
C14_AuthorLookupFailureIsNotFatal ==
  \A p \in Procs :
    (rev = RevMain /\ AuthorLookupFailed(p)) =>
      /\ ~loc[p].panicked
      /\ loc[p].msg.author # ""
      /\ loc[p].msg.assignee = loc[p].assignee
      /\ (pc[p] = "done" /\ slackToken) =>
           Len(sent[p]) = Len(req[p].slackChan)

\* C15: in the later revision, when the event's assignee is one of the
\* maintainers and the GetUser call for that assignee fails,
\* maybeAssignMaintainer returns an error and an empty name and makes no
\* UpdateMergeRequest call, and mergeRequest sends no notification.
C15_AssigneeLookupFailureAborts ==
  \A p \in Procs :
    (rev = RevLookup /\ loc[p].lookupErr # ErrNil) =>
      /\ AssigneeIsMaintainer(p)
      /\ loc[p].returned
      /\ loc[p].err # ErrNil
      /\ loc[p].assignee = ""
      /\ calls[p].update = 0
      /\ calls[p].notify = 0
      /\ calls[p].send = 0
      /\ sent[p] = <<>>
      /\ loc[p].msg = NoMsg
      /\ pc[p] = "done"

\* the lookup of a maintainer assignee failed for an event that names
\* destinations, on a bot whose chat client is connected
C15_Witness ==
  \E p \in Procs :
    /\ rev = RevLookup
    /\ loc[p].lookupErr # ErrNil
    /\ calls[p].getUser = 1
    /\ req[p].slackChan # <<>>
    /\ slackToken
    /\ pc[p] = "done"

\* C16: a send is attempted for every destination of the list passed to
\* notifyNewMR, also when the send to one destination never completes.
C16_SendAttemptedForEveryDestination ==
  \A p \in Procs :
    (calls[p].notify > 0 /\ pc[p] \in {"blocked", "done"} /\ ~loc[p].panicked) =>
      calls[p].send = Len(req[p].slackChan)

\* the same for the handlers whose sends all complete
EveryDestinationSentWhenNoSendBlocks ==
  \A p \in Procs :
    (calls[p].notify > 0 /\ pc[p] = "done" /\ ~loc[p].panicked) =>
      /\ calls[p].send = Len(req[p].slackChan)
      /\ Len(sent[p]) = Len(req[p].slackChan)
      /\ \A i \in 1..Len(sent[p]) :
           /\ sent[p][i].channel = req[p].slackChan[i]
           /\ sent[p][i].msg = loc[p].msg

\* C17: without a chat token, an open or reopen event with destinations is
\* assigned, no chat send is attempted, and the handler neither crashes nor
\* blocks.
C17_NoTokenSkipsDelivery ==
  \A p \in Procs :
    (~slackToken /\ OpenOrReopen(p) /\ req[p].slackChan # <<>>
       /\ loc[p].msg # NoMsg) =>
      /\ calls[p].update + calls[p].getUser > 0
      /\ calls[p].send = 0
      /\ ~loc[p].panicked
      /\ pc[p] # "blocked"

\* the first entry of the page that holds entry i of a list
PageStart(i) == ((i - 1) \div PerPage) * PerPage + 1

\* the listing up to the first absent entry, the entry left out
RECURSIVE BeforeGap(_)
BeforeGap(list) ==
  IF Len(list) = 0 \/ Head(list) = NilMember THEN <<>>
  ELSE <<Head(list)>> \o BeforeGap(Tail(list))

\* C20 as claimed: when a page holds an absent entry, getProjectMaintainers
\* takes it for the end of the listing: no entry after it is included, no
\* further page is requested, and no error is returned.
C20_NilEndsListing ==
  \A p \in Procs :
    (Resolved(p) /\ ~NoGap(members)) =>
      /\ loc[p].maintainers = AllMaintainers(BeforeGap(members))
      /\ calls[p].list = (Len(BeforeGap(members)) \div PerPage) + 1
      /\ calls[p].listErr = 0

\* a list with an absent entry
HasGap(list) == \E i \in 1..Len(list) : list[i] = NilMember

\* entry i of a list is on a page that holds no absent entry up to i
BeforeGapOfPage(list, i) == \A j \in PageStart(i)..i : list[j] # NilMember

\* the entries of a list, from entry i on, that hold Maintainer access or
\* more and precede every absent entry of their own page
RECURSIVE KeptFrom(_, _)
KeptFrom(list, i) ==
  IF i > Len(list) THEN <<>>
  ELSE IF BeforeGapOfPage(list, i) /\ list[i].AccessLevel >= MaintainerPermissions
  THEN <<list[i]>> \o KeptFrom(list, i + 1)
  ELSE KeptFrom(list, i + 1)

\* C20 amended: an absent entry ends the reading of its own page only: no
\* entry after it on that page is included and no error is returned, but the
\* next page is requested whenever the page was full, and its maintainers are
\* included.
C20_NilEndsPage ==
  \A p \in Procs :
    (Resolved(p) /\ HasGap(members)) =>
      /\ loc[p].maintainers = KeptFrom(members, 1)
      /\ calls[p].list = (Len(members) \div PerPage) + 1
      /\ calls[p].listErr = 0

\* a full first page with an absent entry before a maintainer, and a
\* maintainer on the next page, have been listed
C20_Witness ==
  \E p \in Procs :
    /\ Resolved(p)
    /\ Len(members) > PerPage
    /\ members[1] = NilMember
    /\ KeepsMember(members[2])
    /\ KeepsMember(members[Len(members)])
    /\ Len(loc[p].maintainers) = 1
    /\ calls[p].list = 2

\* the IDs of the project's members that hold Maintainer access or more
MaintainerIDs ==
  {members[i].ID : i \in {j \in 1..Len(members) :
      members[j] # NilMember /\ members[j].AccessLevel >= MaintainerPermissions}}

\* maybeAssignMaintainer has returned to p, every call it made having succeeded
AssignedWithoutError(p) ==
  /\ OpenOrReopen(p)
  /\ loc[p].returned
  /\ loc[p].err = ErrNil
  /\ calls[p].listErr = 0

\* C18: when two open or reopen deliveries for the same merge request, both
\* carrying assigneeID 0, are handled concurrently against a non-empty
\* maintainer set and every API call succeeds, then in every interleaving the
\* assignee is a maintainer once both assignments have returned, and each
\* delivery has made at most one update call.
C18_ConcurrentDeliveriesAssignMaintainer ==
  /\ \A p \in Procs : calls[p].update <= 1
  /\ (/\ MaintainerIDs # {}
      /\ \A p \in Procs : req[p].assigneeID = 0 /\ AssignedWithoutError(p)) =>
       /\ mrAssignee \in MaintainerIDs
       /\ \A p \in Procs : calls[p].update = 1
       /\ \E p \in Procs : mrAssignee = loc[p].opt

\* both handlers listed the maintainers before either updated, and the two
\* picked different maintainers
C18_Witness ==
  /\ \A p \in Procs : req[p].assigneeID = 0 /\ AssignedWithoutError(p)
  /\ loc[1].opt # loc[2].opt
  /\ mrAssignee = loc[1].opt
  /\ calls[1].replaced = loc[2].opt
  /\ calls[2].replaced = 0

\* C19 as claimed: over any sequence or interleaving of deliveries for one
\* merge request, an UpdateMergeRequest call is made only when the assignee
\* the platform holds at the moment of the call is unset or is no maintainer;
\* an assignee that is a maintainer is never replaced.
C19_UpdateOnlyWhenNeeded ==
  \A p \in Procs :
    calls[p].update > 0 =>
      \/ calls[p].replaced = 0
      \/ calls[p].replaced \notin MaintainerIDs

\* C19 amended: an UpdateMergeRequest call is made only when the assigneeID
\* the delivery carries is 0 or is none of the maintainers resolved in that
\* invocation, and at most once for a delivery; the assignee the platform
\* holds by then is not looked at.
C19_UpdateOnlyWhenSnapshotNeedsIt ==
  \A p \in Procs :
    (pc[p] = "update" \/ calls[p].update > 0) =>
      /\ Resolved(p)
      /\ Len(loc[p].maintainers) > 0
      /\ req[p].assigneeID \notin ResolvedIDs(p)
      /\ calls[p].update <= 1

\* a delivery that carries a developer as the assignee has replaced the
\* maintainer the other delivery had just assigned
C19_Witness ==
  \E p \in Procs :
    /\ calls[p].update = 1
    /\ req[p].assigneeID # 0
    /\ req[p].assigneeID \notin MaintainerIDs
    /\ calls[p].replaced \in MaintainerIDs
    /\ mrAssignee = loc[p].opt

\* the entries of page k of the member list, counted from the list's length
EntriesOfPage(k) ==
  IF (k + 1) * PerPage <= Len(members) THEN PerPage
  ELSE IF k * PerPage < Len(members) THEN Len(members) - k * PerPage
  ELSE 0

\* C21: getProjectMaintainers terminates on every finite member list: it
\* requests page k+1 only after page k has returned without error with
\* exactly the page size of entries, and it stops at the first page that
\* holds fewer entries or whose fetch fails; a list whose length is a
\* multiple of the page size costs one more fetch, of an empty page.
C21_PaginationStops ==
  \A p \in Procs :
    /\ calls[p].list <= (Len(members) \div PerPage) + 1
    /\ calls[p].listErr <= 1
    /\ pc[p] = "list" =>
         /\ calls[p].listErr = 0
         /\ calls[p].list = loc[p].page
         /\ \A k \in 0..(loc[p].page - 1) : EntriesOfPage(k) = PerPage
    /\ calls[p].listErr = 1 =>
         /\ pc[p] # "list"
         /\ calls[p].list = loc[p].page + 1
         /\ \A k \in 0..(loc[p].page - 1) : EntriesOfPage(k) = PerPage
    /\ (calls[p].list > 0 /\ calls[p].listErr = 0 /\ pc[p] # "list") =>
         /\ calls[p].list = loc[p].page + 1
         /\ EntriesOfPage(loc[p].page) < PerPage
         /\ \A k \in 0..(loc[p].page - 1) : EntriesOfPage(k) = PerPage

\* a list of exactly one full page has been listed with two fetches, the
\* second of an empty page
C21_Witness ==
  \E p \in Procs :
    /\ Len(members) = PerPage
    /\ pc[p] = "done"
    /\ calls[p].list = 2
    /\ calls[p].listErr = 0
    /\ loc[p].page = 1

\* handler p is handling, or has handled, a merge-request event whose action
\* is update, approved, unapproved, merge or close
OtherAction(p) ==
  /\ pc[p] # "idle"
  /\ req[p].parse = ParseMerge
  /\ req[p].action \in {"update", "approved", "unapproved", "merge", "close"}

\* C22: in the earliest revision, a merge-request event whose action is
\* update, approved, unapproved, merge or close causes no ListProjectMembers
\* and no UpdateMergeRequest call.
C22_EarliestOtherActionsAreNoOps ==
  \A p \in Procs :
    (rev = RevEarliest /\ OtherAction(p)) =>
      /\ calls[p].list = 0
      /\ calls[p].update = 0

\* the same of the revision with the channel map
StaticOtherActionsAreNoOps ==
  \A p \in Procs :
    (rev = RevStatic /\ OtherAction(p)) =>
      /\ calls[p] = NoCalls
      /\ pc[p] = "done"

\* handler p has handled a merge-request event with the given action to its
\* end, without a panic and without a failed call
Handled(p, action) ==
  /\ pc[p] = "done"
  /\ req[p].parse = ParseMerge
  /\ req[p].action = action
  /\ ~loc[p].panicked

\* C23: in every revision with chat, a reopen event invokes
\* maybeAssignMaintainer and, when it succeeds, the notifier, as an open
\* event does.
C23_ReopenAssignsAndNotifies ==
  \A p \in Procs :
    (rev # RevEarliest /\ Handled(p, "reopen")) =>
      /\ calls[p].list > 0
      /\ loc[p].returned
      /\ loc[p].err = ErrNil => calls[p].notify = 1

\* the same of an open event
OpenAssignsAndNotifies ==
  \A p \in Procs :
    (rev # RevEarliest /\ Handled(p, "open")) =>
      /\ calls[p].list > 0
      /\ loc[p].returned
      /\ loc[p].err = ErrNil => calls[p].notify = 1

\* C24: a request whose body cannot be read, or cannot be parsed as a
\* webhook, never reaches mergeRequest: it causes no ListProjectMembers,
\* UpdateMergeRequest, GetUser or chat send call.
C24_RejectedRequestsMakeNoCalls ==
  \A p \in Procs :
    (pc[p] # "idle" /\ (req[p].readErr \/ req[p].parse = ParseError)) =>
      /\ calls[p] = NoCalls
      /\ sent[p] = <<>>
      /\ pc[p] = "done"

\* the same of the requests whose body cannot be parsed
UnparsedRequestsMakeNoCalls ==
  \A p \in Procs :
    (pc[p] # "idle" /\ req[p].parse = ParseError) =>
      /\ calls[p] = NoCalls
      /\ sent[p] = <<>>
      /\ pc[p] = "done"
=============================================================================
